---- MODULE Spec2Model ----
(***************************************************************************)
(* Certified linear algebra over balls (src/reduction.py) and the search   *)
(* for an invariant subspace built on it (src/splitting.py).               *)
(*                                                                         *)
(* Numbers.  A ball is a midpoint and a radius, both exact rationals; the  *)
(* arithmetic is the midpoint-radius arithmetic of the ball field the code *)
(* is written for, without rounding.  A rational is <<num, den>> in lowest *)
(* terms with den > 0.  Matrices, vectors and row/column indices are       *)
(* 0-based, as in the code.                                                *)
(***************************************************************************)
EXTENDS Integers, Sequences, FiniteSets, TLC

(* ------------------------------ rationals ------------------------------ *)

Abs(a) == IF a < 0 THEN -a ELSE a

RECURSIVE Gcd(_, _)
Gcd(a, b) == IF b = 0 THEN a ELSE Gcd(b, a % b)

Q(a, b) ==
    LET g == Gcd(Abs(a), Abs(b))
        s == IF b < 0 THEN -1 ELSE 1
    IN  <<(s * a) \div g, (s * b) \div g>>

QInt(a) == <<a, 1>>
QZero == <<0, 1>>
QOne == <<1, 1>>
QAdd(x, y) == IF x[2] = 1 /\ y[2] = 1 THEN <<x[1] + y[1], 1>>
              ELSE Q(x[1] * y[2] + y[1] * x[2], x[2] * y[2])
QNeg(x) == <<-x[1], x[2]>>
QSub(x, y) == QAdd(x, QNeg(y))
QMul(x, y) == IF x[2] = 1 /\ y[2] = 1 THEN <<x[1] * y[1], 1>>
              ELSE Q(x[1] * y[1], x[2] * y[2])
QDiv(x, y) == Q(x[1] * y[2], x[2] * y[1])
QAbs(x) == <<Abs(x[1]), x[2]>>
QLe(x, y) == x[1] * y[2] <= y[1] * x[2]
QLt(x, y) == x[1] * y[2] < y[1] * x[2]
QMax(x, y) == IF QLt(x, y) THEN y ELSE x

(* -------------------------------- balls -------------------------------- *)

Ball(m, r) == [mid |-> m, rad |-> r]
Exact(m) == Ball(m, QZero)
BInt(a) == Exact(QInt(a))
BZero == BInt(0)
BOne == BInt(1)

\* (on exact balls the radius of the result is 0 and is not computed)
BothExact(x, y) == x.rad[1] = 0 /\ y.rad[1] = 0
BAdd(x, y) ==
    IF BothExact(x, y) THEN Exact(QAdd(x.mid, y.mid))
    ELSE Ball(QAdd(x.mid, y.mid), QAdd(x.rad, y.rad))
BSub(x, y) ==
    IF BothExact(x, y) THEN Exact(QSub(x.mid, y.mid))
    ELSE Ball(QSub(x.mid, y.mid), QAdd(x.rad, y.rad))
BMul(x, y) ==
    IF BothExact(x, y) THEN Exact(QMul(x.mid, y.mid))
    ELSE Ball(QMul(x.mid, y.mid),
              QAdd(QAdd(QMul(QAbs(x.mid), y.rad), QMul(QAbs(y.mid), x.rad)),
                   QMul(x.rad, y.rad)))
\* x / y for a ball y that does not contain zero
BDiv(x, y) ==
    IF BothExact(x, y) THEN Exact(QDiv(x.mid, y.mid))
    ELSE Ball(QDiv(x.mid, y.mid),
              QDiv(QAdd(QMul(QAbs(x.mid), y.rad), QMul(QAbs(y.mid), x.rad)),
                   QMul(QAbs(y.mid), QSub(QAbs(y.mid), y.rad))))

contains_zero(x) == QLe(QAbs(x.mid), x.rad)
is_nonzero(x) == ~contains_zero(x)
below_abs(x) == QMax(QSub(QAbs(x.mid), x.rad), QZero)
above_abs(x) == QAdd(QAbs(x.mid), x.rad)
add_error(x, err) == Ball(x.mid, QAdd(x.rad, err))
\* the ball x contains the point q; the balls x and y have a common point
BContains(x, q) == QLe(QAbs(QSub(q, x.mid)), x.rad)
overlaps(x, y) == QLe(QAbs(QSub(x.mid, y.mid)), QAdd(x.rad, y.rad))

(* --------------------------- matrices, vectors -------------------------- *)

\* A function is handed on with its values computed: comparing it does that,
\* and what is computed once is not computed again at each use.
Computed(f) == IF f = f THEN f ELSE f

Vector(n, F(_)) == Computed([k \in 0..(n - 1) |-> F(k)])
Matrix(m, n, F(_, _)) ==
    [nrows |-> m, ncols |-> n,
     e |-> Computed([i \in 0..(m - 1) |-> [j \in 0..(n - 1) |-> F(i, j)]])]
identity_matrix(n) == Matrix(n, n, LAMBDA i, j : IF i = j THEN BOne ELSE BZero)
VLen(v) == Cardinality(DOMAIN v)

RECURSIVE BSumTo(_, _)
BSumTo(f, k) == IF k < 0 THEN BZero ELSE BAdd(BSumTo(f, k - 1), f[k])
\* the sum of f[0], ..., f[len-1]
BSum(f, len) == BSumTo(f, len - 1)

MatMul(A, B) ==
    Matrix(A.nrows, B.ncols,
           LAMBDA i, j : BSum([k \in 0..(A.ncols - 1) |-> BMul(A.e[i][k], B.e[k][j])],
                              A.ncols))
\* mat * vec
MatVec(A, v) ==
    Vector(A.nrows,
           LAMBDA i : BSum([k \in 0..(A.ncols - 1) |-> BMul(A.e[i][k], v[k])],
                           A.ncols))
Column(A, j) == Vector(A.nrows, LAMBDA i : A.e[i][j])
\* the matrix with the single row vec
RowMatrix(v) == Matrix(1, VLen(v), LAMBDA i, j : v[j])
\* b.stack(c)
Stack(A, B) ==
    Matrix(A.nrows + B.nrows, A.ncols,
           LAMBDA i, j : IF i < A.nrows THEN A.e[i][j] ELSE B.e[i - A.nrows][j])
\* b.matrix_from_rows(range(r))
FirstRows(A, r) == Matrix(r, A.ncols, LAMBDA i, j : A.e[i][j])
\* list(b)
RowList(A) == [i \in 1..A.nrows |-> A.e[i - 1]]

\* T.det(): the enclosure of the determinant, by expansion along the first row
RECURSIVE Det(_)
Det(A) ==
    IF A.nrows = 0 THEN BOne
    ELSE LET n == A.nrows
             Minor(c) == Matrix(n - 1, n - 1,
                                LAMBDA i, j : A.e[i + 1][IF j < c THEN j ELSE j + 1])
             term(c) == LET t == BMul(A.e[0][c], Det(Minor(c)))
                        IN  IF c % 2 = 0 THEN t ELSE BSub(BZero, t)
         IN  BSum([c \in 0..(n - 1) |-> term(c)], n)

(* ---------------------------------- REF --------------------------------- *)

\* A pivot dictionary is the sequence of its items <<column, row>> in
\* insertion order, which is the order "for j in p" visits them.
HasKey(p, j) == \E k \in 1..Len(p) : p[k][1] = j
Get(p, j) == p[CHOOSE k \in 1..Len(p) : p[k][1] = j][2]
Keys(p) == {p[k][1] : k \in 1..Len(p)}
Values(p) == {p[k][2] : k \in 1..Len(p)}

\* T[i] = [T[i,k] - c*T[s,k] for k in range(m)]
RowSubMul(T, i, c, s) ==
    [T EXCEPT !.e[i] = Vector(T.nrows,
                              LAMBDA k : BSub(T.e[i][k], BMul(c, T.e[s][k])))]

\* lines 130-131: for i in range(i, m), with the column computed before
RECURSIVE ReplayRows(_, _, _, _)
ReplayRows(T, col, s, i) ==
    IF i >= T.nrows THEN T
    ELSE ReplayRows(RowSubMul(T, i, col[i], s), col, s, i + 1)

\* lines 128-131: the items k, k+1, ... of p replayed on the rows r.. of T
RECURSIVE Replay(_, _, _, _, _)
Replay(mat, p, T, r, k) ==
    IF k > Len(p) THEN T
    ELSE LET j == p[k][1]
             col == MatVec(T, Column(mat, j))
         IN  Replay(mat, p, ReplayRows(T, col, Get(p, j), r), r, k + 1)

\* lines 137-138: the first row l in range(r, m) whose entry is certainly
\* nonzero and has the largest below_abs; -1 stands for None
PivotRow(col, r, m) ==
    LET cand == {l \in r..(m - 1) : is_nonzero(col[l])}
    IN  IF cand = {} THEN -1
        ELSE CHOOSE i \in cand :
               \A l \in cand :
                  /\ QLe(below_abs(col[l]), below_abs(col[i]))
                  /\ (l < i => QLt(below_abs(col[l]), below_abs(col[i])))

\* Eliminate without line 143: the pivot row is not divided by the pivot
EliminateUnscaled(T, col, i, r) ==
    LET m == T.nrows
        Ts == [T EXCEPT !.e[i] = T.e[r], !.e[r] = T.e[i]]
        cs == [col EXCEPT ![i] = col[r], ![r] = col[i]]
    IN  Matrix(m, m,
               LAMBDA l, k : IF l > r
                             THEN BSub(Ts.e[l][k], BMul(cs[l], Ts.e[r][k]))
                             ELSE Ts.e[l][k])

\* lines 141-145: the pivot of column j is put in row r
Eliminate(T, col, i, r) ==
    LET m == T.nrows
        Ts == [T EXCEPT !.e[i] = T.e[r], !.e[r] = T.e[i]]
        cs == [col EXCEPT ![i] = col[r], ![r] = col[i]]
        Tr == [Ts EXCEPT !.e[r] = Vector(m, LAMBDA k : BDiv(Ts.e[r][k], cs[r]))]
    IN  Matrix(m, m,
               LAMBDA l, k : IF l > r
                             THEN BSub(Tr.e[l][k], BMul(cs[l], Tr.e[r][k]))
                             ELSE Tr.e[l][k])

\* Pivot with line 141 outside the test of line 140: a column without a
\* pivot is recorded as one
PivotAlways(st, j, col, i) ==
    [T |-> IF i = -1 THEN st.T ELSE Eliminate(st.T, col, i, Len(st.p)),
     p |-> Append(st.p, <<j, Len(st.p)>>)]
\* lines 140-145: st = [T, p] after the column j, whose pivot is in row i
Pivot(st, j, col, i) ==
    IF i = -1 THEN st
    ELSE [T |-> Eliminate(st.T, col, i, Len(st.p)), p |-> Append(st.p, <<j, Len(st.p)>>)]
\* lines 136-145, col being T * vector(mat[:,j])
PivotIn(st, j, col, m) == Pivot(st, j, col, PivotRow(col, Len(st.p), m))

\* lines 133-145: the columns j, j+1, ... ; st = [T, p]
RECURSIVE Columns(_, _, _)
Columns(mat, st, j) ==
    IF j >= mat.ncols THEN st
    ELSE IF HasKey(st.p, j) THEN Columns(mat, st, j + 1)
    ELSE Columns(mat, PivotIn(st, j, MatVec(st.T, Column(mat, j)), mat.nrows), j + 1)

\* lines 147-150: R = T*mat with the pivots set to 1 and what is below to 0
SetPivots(R, p) ==
    Matrix(R.nrows, R.ncols,
           LAMBDA i, j : IF HasKey(p, j) /\ i = Get(p, j) THEN BOne
                         ELSE IF HasKey(p, j) /\ i > Get(p, j) THEN BZero
                         ELSE R.e[i][j])

\* lines 123-150: the locals R, T, p when the elimination is done
REFLocals(mat, st) == [R |-> SetPivots(MatMul(st.T, mat), st.p), T |-> st.T, p |-> st.p]
REFCore(mat, prec_pivots) ==
    REFLocals(mat,
              Columns(mat,
                      [T |-> Replay(mat, prec_pivots, identity_matrix(mat.nrows),
                                    Len(prec_pivots), 1),
                       p |-> prec_pivots],
                      0))

\* lines 152-158: what is raised, or "none" and the tuple returned
REFReturn(c, transformation, pivots) ==
    IF transformation /\ contains_zero(Det(c.T))
    THEN [exc |-> "PrecisionError"]
    ELSE IF transformation /\ pivots
    THEN [exc |-> "none", R |-> c.R, T |-> c.T, p |-> c.p]
    ELSE IF transformation THEN [exc |-> "none", R |-> c.R, T |-> c.T]
    ELSE IF pivots THEN [exc |-> "none", R |-> c.R, p |-> c.p]
    ELSE [exc |-> "none", R |-> c.R]

\* REF(mat, transformation=..., pivots=..., prec_pivots=...)
REF(mat, transformation, pivots, prec_pivots) ==
    REFReturn(REFCore(mat, prec_pivots), transformation, pivots)

(* ------------------- exact linear algebra, for reference ---------------- *)
(* Rows of rationals, as sequences.  Rank is plain Gaussian elimination    *)
(* over the rationals; the properties of the code's results are stated     *)
(* with it.                                                                *)

QRowZero(v) == \A k \in 1..Len(v) : v[k][1] = 0
QRowLead(v) == CHOOSE c \in 1..Len(v) : v[c][1] # 0 /\ \A d \in 1..(c - 1) : v[d][1] = 0
\* w - (w[c]/v[c]) v
QRowReduce(w, v, c) ==
    LET f == QDiv(w[c], v[c])
    IN  [k \in 1..Len(w) |-> QSub(w[k], QMul(f, v[k]))]

RECURSIVE Rank(_)
Rank(rows) ==
    LET nz == {i \in 1..Len(rows) : ~QRowZero(rows[i])}
    IN  IF nz = {} THEN 0
        ELSE LET i == CHOOSE a \in nz : \A a2 \in nz : a <= a2
                 v == rows[i]
                 c == QRowLead(v)
                 rest == [k \in 1..(Len(rows) - i) |->
                             Computed(QRowReduce(rows[i + k], v, c))]
             IN  1 + Rank(rest)

\* the rows of midpoints of a matrix, and of a list of vectors
MidRow(v) == [k \in 1..VLen(v) |-> v[k - 1].mid]
MidRows(A) == [i \in 1..A.nrows |-> MidRow(A.e[i - 1])]
MidList(vs) == [i \in 1..Len(vs) |-> MidRow(vs[i])]
IsExact(A) == \A i \in 0..(A.nrows - 1) : \A j \in 0..(A.ncols - 1) :
                 A.e[i][j].rad = QZero
\* the point matrix that takes in each entry the point mid + (k/2) rad
PointRows(A, k) ==
    [i \in 1..A.nrows |-> [j \in 1..A.ncols |->
        QAdd(A.e[i - 1][j - 1].mid, QMul(Q(k, 2), A.e[i - 1][j - 1].rad))]]
\* the ball x lies in the ball y
BSubset(x, y) == QLe(QAdd(QAbs(QSub(x.mid, y.mid)), x.rad), y.rad)

(* ------------------------------ inputs of REF --------------------------- *)

\* radii k/RadDen, k = 1..MaxRad
RadDen == 2
MaxRad == 2
\* rows stacked under an echelon form before REF is resumed
MaxExtra == 1

FromInts(rows) ==
    Matrix(Len(rows), Len(rows[1]), LAMBDA i, j : BInt(rows[i + 1][j + 1]))
Bits == {0, 1}
Rows3 == Bits \X Bits \X Bits
ExactInputs == {FromInts(<<r0, r1, r2>>) : r0 \in Rows3, r1 \in Rows3, r2 \in Rows3}
\* mat with the entry (i, j) given the radius k/RadDen
Blur(mat, i, j, k) ==
    [mat EXCEPT !.e[i][j] = Ball(mat.e[i][j].mid, Q(k, RadDen))]
\* the 3x3 matrices of 0 and 1, exact or with one entry of the first row a
\* ball of positive radius
RefInputs ==
    ExactInputs \cup
    {Blur(mat, 0, j, k) : mat \in ExactInputs, j \in 0..2, k \in 1..MaxRad}
ExtraRowPool == {<<1, 1, 1>>, <<0, 1, 0>>}
RECURSIVE SeqsUpTo(_, _)
SeqsUpTo(S, k) ==
    IF k = 0 THEN {<<>>}
    ELSE LET prev == SeqsUpTo(S, k - 1)
         IN  prev \cup {Append(q, a) : q \in prev, a \in S}
ExtraRows == {FromInts(q) : q \in SeqsUpTo(ExtraRowPool, MaxExtra) \ {<<>>}}

\* one variable for each function under study (its arguments, locals and
\* outcome) and one for the Splitting object the search works on
VARIABLES ref, orb, alg, split, search
vars == <<ref, orb, alg, split, search>>
\* a function that is not being called
Idle == [stage |-> "idle"]

(* ------------------------------ calls of REF ---------------------------- *)

RefInit ==
    /\ ref \in {[stage |-> "input", mat |-> mat] : mat \in RefInputs}
    /\ orb = Idle /\ alg = Idle /\ split = Idle /\ search = Idle

\* REF(mat, transformation=tr, pivots=True)
RefCall ==
    /\ ref.stage = "input"
    /\ LET c == REFCore(ref.mat, <<>>)
       IN  \E tr \in BOOLEAN :
             ref' = [stage |-> "first", mat |-> ref.mat, transformation |-> tr,
                     prec_pivots |-> <<>>, T |-> c.T,
                     out |-> REFReturn(c, tr, TRUE)]
    /\ UNCHANGED <<orb, alg, split, search>>

\* (R, p) = REF(mat, pivots=True) is given back: REF(R, pivots=True, prec_pivots=p)
RefAgain ==
    /\ ref.stage = "first"
    /\ ~ref.transformation
    /\ LET c == REFCore(ref.out.R, ref.out.p)
       IN  ref' = [stage |-> "again", mat |-> ref.out.R, transformation |-> FALSE,
                   prec_pivots |-> ref.out.p, T |-> c.T,
                   out |-> REFReturn(c, FALSE, TRUE), first |-> ref.out]
    /\ UNCHANGED <<orb, alg, split, search>>

\* the use orbit and generated_algebra make of prec_pivots: new rows are
\* stacked under the len(p) first rows of R and REF is resumed from p
RefResume ==
    /\ ref.stage = "first"
    /\ ~ref.transformation
    /\ Len(ref.out.p) < ref.mat.ncols
    /\ \E rows \in ExtraRows :
         LET mat == Stack(FirstRows(ref.out.R, Len(ref.out.p)), rows)
             c == REFCore(mat, ref.out.p)
         IN  ref' = [stage |-> "resumed", mat |-> mat, transformation |-> FALSE,
                     prec_pivots |-> ref.out.p, T |-> c.T,
                     out |-> REFReturn(c, FALSE, TRUE)]
    /\ UNCHANGED <<orb, alg, split, search>>

RefNext == RefCall \/ RefAgain \/ RefResume
SpecREF == RefInit /\ [][RefNext]_vars

(* ------------------------------ claims on REF --------------------------- *)

RefReturned == ref.stage \in {"first", "again", "resumed"} /\ ref.out.exc = "none"

\* C4: the output (R, p) has the almost-reduced echelon shape: the values of
\* p are the row indices 0..len(p)-1, each once; in a pivot column j,
\* R[p[j], j] is exactly 1 and R[i, j] is exactly 0 for i > p[j]; every entry
\* of a row of index >= len(p) contains zero.
C4_EchelonShape ==
    RefReturned =>
        LET R == ref.out.R
            p == ref.out.p
        IN  /\ Values(p) = 0..(Len(p) - 1)
            /\ Cardinality(Keys(p)) = Len(p)
            /\ \A k \in 1..Len(p) :
                  /\ R.e[p[k][2]][p[k][1]] = BOne
                  /\ \A i \in (p[k][2] + 1)..(R.nrows - 1) : R.e[i][p[k][1]] = BZero
            /\ \A i \in Len(p)..(R.nrows - 1) : \A j \in 0..(R.ncols - 1) :
                  contains_zero(R.e[i][j])

\* C5: the number of pivots of REF(mat, pivots=True) is at most the rank of
\* every exact matrix lying in mat (here: the matrices taking in every entry
\* the point mid + (k/2) rad), and is the rank of mat when mat is exact.
SamplePoints == -2..2
C5_PivotsAtMostRank ==
    (ref.stage = "first" /\ ~ref.transformation) =>
        /\ \A k \in SamplePoints : Len(ref.out.p) <= Rank(PointRows(ref.mat, k))
        /\ IsExact(ref.mat) => Len(ref.out.p) = Rank(MidRows(ref.mat))
\* an inexact matrix on which REF certifies fewer pivots than the rank of the
\* midpoints
C5_Witness ==
    /\ ref.stage = "first" /\ ~ref.transformation
    /\ ~IsExact(ref.mat)
    /\ Len(ref.out.p) >= 1
    /\ Len(ref.out.p) < Rank(MidRows(ref.mat))

\* C6: REF(mat, transformation=True) raises PrecisionError exactly when the
\* enclosure of det(T) contains zero; otherwise T is invertible (its sampled
\* point matrices have full rank) and every entry of R lies in the entry of
\* T*mat (R = T*mat for exact input); without transformation nothing is
\* raised.
C6_TransformationCertified ==
    ref.stage = "first" =>
        IF ref.transformation
        THEN /\ (ref.out.exc = "PrecisionError") <=> contains_zero(Det(ref.T))
             /\ ref.out.exc \in {"PrecisionError", "none"}
             /\ ref.out.exc = "none" =>
                   LET TM == MatMul(ref.out.T, ref.mat)
                   IN  /\ \A k \in SamplePoints :
                             Rank(PointRows(ref.out.T, k)) = ref.mat.nrows
                       /\ \A i \in 0..(TM.nrows - 1) : \A j \in 0..(TM.ncols - 1) :
                             BSubset(ref.out.R.e[i][j], TM.e[i][j])
                       /\ IsExact(ref.mat) => ref.out.R = TM
        ELSE ref.out.exc = "none"
\* a transformation with inexact entries that is certified invertible
C6_Witness ==
    /\ ref.stage = "first" /\ ref.transformation
    /\ ref.out.exc = "none"
    /\ ~IsExact(ref.out.T)
    /\ Len(ref.out.p) >= 2
C6_WitnessRaise ==
    /\ ref.stage = "first" /\ ref.transformation
    /\ ref.out.exc = "PrecisionError"

\* C10: REF(R, pivots=True, prec_pivots=p) on the output (R, p) of
\* REF(mat, pivots=True) returns (R, p) again.
C10_Idempotent ==
    ref.stage = "again" =>
        /\ ref.out.exc = "none"
        /\ ref.out.R = ref.first.R
        /\ ref.out.p = ref.first.p

(* --------------------------------- orbit -------------------------------- *)
(* Lists (Mats, T, the returned b) are sequences; range(lo, hi) is the      *)
(* record [lo, hi].                                                         *)

Range(lo, hi) == [lo |-> lo, hi |-> hi]
RangeLen(rg) == IF rg.hi > rg.lo THEN rg.hi - rg.lo ELSE 0
\* c * A
ScalMat(c, A) == Matrix(A.nrows, A.ncols, LAMBDA i, j : BMul(c, A.e[i][j]))
MatAdd(A, B) == Matrix(A.nrows, A.ncols, LAMBDA i, j : BAdd(A.e[i][j], B.e[i][j]))
\* sum(S[i,j]*Tj for j, Tj in enumerate(T)), which starts from the integer 0
RECURSIVE SumScaled(_, _, _, _)
SumScaled(S, i, T, k) ==
    IF k = 1 THEN ScalMat(S.e[i][0], T[1])
    ELSE MatAdd(SumScaled(S, i, T, k - 1), ScalMat(S.e[i][k - 1], T[k]))
\* matrix(rows) for a non-empty list of vectors of size n
MatrixOfRows(rows, n) == Matrix(Len(rows), n, LAMBDA i, j : rows[i + 1][j])
\* [F(mat, i) for mat in Mats for i in new]
ForMatsForNew(Mats, new, F(_, _)) ==
    Computed([k \in 1..(Len(Mats) * RangeLen(new)) |->
                F(Mats[((k - 1) \div RangeLen(new)) + 1],
                  new.lo + ((k - 1) % RangeLen(new)))])
\* [mat*vector(b[i]) for mat in Mats for i in new]
ImagesFirstMat(Mats, b, new) ==
    ForMatsForNew(Mats, new, LAMBDA mat, i : MatVec(Mats[1], b.e[i]))
Images(Mats, b, new) ==
    ForMatsForNew(Mats, new, LAMBDA mat, i : MatVec(mat, b.e[i]))
\* T.extend([mat*T[i] for mat in Mats for i in new])
Extend(Mats, T, new) ==
    T \o ForMatsForNew(Mats, new, LAMBDA mat, i : MatMul(mat, T[i + 1]))
\* T[r:] = [sum(S[i,j]*Tj for j, Tj in enumerate(T)) for i in new]
RecombineNone(S, T, r, new) == SubSeq(T, 1, new.hi)
Recombine(S, T, r, new) ==
    SubSeq(T, 1, r) \o
    Computed([k \in 1..RangeLen(new) |-> SumScaled(S, new.lo + k - 1, T, Len(T))])

\* lines 236-242, out being what REF has given at line 235
OrbitBeginWith(Mats, vec, transition, out) ==
    IF out.exc # "none"
    THEN [Mats |-> Mats, vec |-> vec, transition |-> transition,
          stage |-> "raised", exc |-> out.exc]
    ELSE IF Len(out.p) = 0
    THEN [Mats |-> Mats, vec |-> vec, transition |-> transition,
          stage |-> "returned", b |-> <<>>, T |-> <<>>, rounds |-> 0]
    ELSE [Mats |-> Mats, vec |-> vec, transition |-> transition,
          stage |-> "loop", b |-> out.R, p |-> out.p,
          T |-> IF transition
                THEN <<ScalMat(out.T.e[0][0], identity_matrix(VLen(vec)))>>
                ELSE <<>>,
          r |-> 1, new |-> Range(0, 1), rounds |-> 0]
\* lines 233-242: the state of the call when it reaches the loop, or its
\* outcome when it does not
OrbitBegin(Mats, vec, transition) ==
    OrbitBeginWith(Mats, vec, transition, REF(RowMatrix(vec), TRUE, TRUE, <<>>))

\* line 243
OrbitLoopGuard(o) == RangeLen(o.new) > 0 /\ o.r < VLen(o.vec)

\* lines 253-258, T1 being T after line 247 and out what REF has given
OrbitStepWith(o, T1, out) ==
    IF out.exc # "none"
    THEN [Mats |-> o.Mats, vec |-> o.vec, transition |-> o.transition,
          stage |-> "raised", exc |-> out.exc]
    ELSE [Mats |-> o.Mats, vec |-> o.vec, transition |-> o.transition,
          stage |-> "loop", p |-> out.p, new |-> Range(o.r, Len(out.p)),
          b |-> FirstRows(out.R, Len(out.p)),
          T |-> IF o.transition
                THEN Recombine(out.T, T1, o.r, Range(o.r, Len(out.p)))
                ELSE <<>>,
          r |-> Len(out.p), rounds |-> o.rounds + 1]
\* lines 244-258: one round of the loop; rounds counts the rounds done
OrbitStep(o) ==
    OrbitStepWith(o,
                  IF o.transition THEN Extend(o.Mats, o.T, o.new) ELSE <<>>,
                  REF(Stack(o.b, MatrixOfRows(Images(o.Mats, o.b, o.new), VLen(o.vec))),
                      o.transition, TRUE, o.p))

\* lines 260-261
OrbitEnd(o) ==
    [Mats |-> o.Mats, vec |-> o.vec, transition |-> o.transition,
     stage |-> "returned", b |-> RowList(o.b), T |-> o.T, rounds |-> o.rounds]

\* the whole call: orbit(Mats, vec, transition=...)
RECURSIVE OrbitRun(_)
OrbitRun(o) ==
    IF o.stage # "loop" THEN o
    ELSE IF OrbitLoopGuard(o) THEN OrbitRun(OrbitStep(o))
    ELSE OrbitEnd(o)
orbit(Mats, vec, transition) == OrbitRun(OrbitBegin(Mats, vec, transition))

OrbitStart ==
    /\ orb.stage = "input"
    /\ \E transition \in BOOLEAN : orb' = OrbitBegin(orb.Mats, orb.vec, transition)
    /\ UNCHANGED <<ref, alg, split, search>>

OrbitRound ==
    /\ orb.stage = "loop"
    /\ OrbitLoopGuard(orb)
    /\ orb' = OrbitStep(orb)
    /\ UNCHANGED <<ref, alg, split, search>>

OrbitReturn ==
    /\ orb.stage = "loop"
    /\ ~OrbitLoopGuard(orb)
    /\ orb' = OrbitEnd(orb)
    /\ UNCHANGED <<ref, alg, split, search>>

(* ----------------------------- inputs of orbit -------------------------- *)

\* families of at most MaxMats matrices
MaxMats == 2
OrbitMatPool ==
    {FromInts(m) : m \in {<<<<1, 1, 0>>, <<0, 1, 1>>, <<0, 0, 1>>>>,
                          <<<<0, 0, 1>>, <<0, 0, 0>>, <<0, 0, 0>>>>,
                          <<<<0, 0, 0>>, <<0, 0, 1>>, <<0, 0, 0>>>>,
                          <<<<0, 0, 0>>, <<1, 0, 0>>, <<0, 0, 0>>>>,
                          <<<<0, 1, 0>>, <<0, 0, 1>>, <<1, 0, 0>>>>,
                          <<<<1, 0, 0>>, <<0, 2, 0>>, <<0, 0, 2>>>>}}
ExactFamilies == SeqsUpTo(OrbitMatPool, MaxMats) \ {<<>>}
\* the family with the entry (0, 1) of its first matrix given the radius
\* k/RadDen
BlurFamily(Mats, k) == [Mats EXCEPT ![1] = Blur(Mats[1], 0, 1, k)]
OrbitFamilies ==
    ExactFamilies \cup {BlurFamily(Mats, 1) : Mats \in ExactFamilies}
ExactVecs == {Vector(3, LAMBDA k : BInt(row[k + 1])) : row \in Rows3}
BlurVec(vec, j, k) == [vec EXCEPT ![j] = Ball(vec[j].mid, Q(k, RadDen))]
OrbitVecs ==
    ExactVecs \cup {BlurVec(vec, j, k) : vec \in ExactVecs, j \in 0..2, k \in 1..MaxRad}

OrbitInit ==
    /\ orb \in {[stage |-> "input", Mats |-> Mats, vec |-> vec] :
                  Mats \in OrbitFamilies, vec \in OrbitVecs}
    /\ ref = Idle /\ alg = Idle /\ split = Idle /\ search = Idle
OrbitNext == OrbitStart \/ OrbitRound \/ OrbitReturn
SpecOrbit == OrbitInit /\ [][OrbitNext]_vars

(* ----------------------------- claims on orbit -------------------------- *)

IsExactVec(v) == \A k \in DOMAIN v : v[k].rad = QZero
OrbitExactInput ==
    /\ \A k \in 1..Len(orb.Mats) : IsExact(orb.Mats[k])
    /\ IsExactVec(orb.vec)
\* vec, then the images of vec under the products of at most k matrices of Mats
RECURSIVE Words(_, _, _)
Words(Mats, vs, k) ==
    IF k = 0 THEN vs
    ELSE vs \o Words(Mats,
                     Computed([i \in 1..(Len(Mats) * Len(vs)) |->
                                 MatVec(Mats[((i - 1) \div Len(vs)) + 1],
                                        vs[((i - 1) % Len(vs)) + 1])]),
                     k - 1)
\* the smallest subspace containing vec and invariant under Mats is spanned by
\* the images of vec under the products of at most n-1 matrices
Krylov(Mats, vec) == MidList(Words(Mats, <<vec>>, VLen(vec) - 1))

C7_Basis ==
    (OrbitExactInput /\ orb.stage \in {"returned", "raised"}) =>
        /\ orb.stage = "returned"
        /\ LET V == MidList(orb.b)
               K == Krylov(orb.Mats, orb.vec)
           IN  /\ Rank(V) = Len(V)
               /\ Rank(Append(V, MidRow(orb.vec))) = Len(V)
               /\ \A m \in 1..Len(orb.Mats) : \A i \in 1..Len(V) :
                     Rank(Append(V, MidRow(MatVec(orb.Mats[m], orb.b[i])))) = Len(V)
               /\ Rank(K \o V) = Rank(K)
               /\ Len(V) = Rank(K)
               /\ QRowZero(MidRow(orb.vec)) => orb.b = <<>>
\* the loop of orbit goes on after a round only if r < n and the round has
\* raised r: at most n-1 rounds are made, after which the call returns
C7_Terminates ==
    (OrbitExactInput /\ orb.stage = "loop") =>
        /\ orb.rounds <= VLen(orb.vec) - 1
        /\ OrbitLoopGuard(orb) => orb.rounds < orb.r
        /\ orb.rounds = VLen(orb.vec) - 1 => ~OrbitLoopGuard(orb)
\* C7: for exact Mats and vec, orbit(Mats, vec) terminates (it never
\* raises, and returns after at most n-1 rounds), returning linearly
\* independent vectors whose span contains vec, is mapped into itself by
\* every matrix of Mats and lies in every invariant subspace that contains
\* vec; their number is the dimension of the smallest such subspace, and the
\* list is empty when vec is zero.
C7_OrbitExact == C7_Basis /\ C7_Terminates
\* two matrices are needed to reach the whole space (second doctest of orbit)
C7_Witness ==
    /\ orb.stage = "returned" /\ OrbitExactInput
    /\ Len(orb.Mats) = 2
    /\ Len(orb.b) = 3
    /\ orb.rounds = 2
    /\ Rank(Krylov(<<orb.Mats[1]>>, orb.vec)) = 2
    /\ Rank(Krylov(<<orb.Mats[2]>>, orb.vec)) < 3

VecOverlaps(u, v) == \A k \in DOMAIN u : overlaps(u[k], v[k])
\* C9: with transition=True, len(T) == len(b) after every round and on
\* return, and T[i]*vec matches b[i]: equal for exact input, overlapping
\* otherwise.
C9_Transition ==
    (orb.stage \in {"loop", "returned"} /\ orb.transition) =>
        LET b == IF orb.stage = "loop" THEN RowList(orb.b) ELSE orb.b
        IN  /\ Len(orb.T) = Len(b)
            /\ \A i \in 1..Len(b) :
                  LET Tv == MatVec(orb.T[i], orb.vec)
                  IN  /\ VecOverlaps(Tv, b[i])
                      /\ OrbitExactInput => Tv = b[i]
\* an inexact input whose orbit has gone through a round that found a vector
C9_Witness ==
    /\ orb.stage = "returned" /\ orb.transition
    /\ ~OrbitExactInput
    /\ Len(orb.b) >= 2
    /\ \E i \in 1..Len(orb.T) : ~IsExact(orb.T[i])

(* ---------------------------- generated_algebra ------------------------- *)

\* mat.list(): the entries of mat, row after row
Flatten(A) == Vector(A.nrows * A.ncols, LAMBDA k : A.e[k \div A.ncols][k % A.ncols])
\* matrix(n, v)
Unflatten(n, v) == Matrix(n, n, LAMBDA i, j : v[i * n + j])
\* [(matrix(n,b[i])*matrix(n,b[j])).list() for i in range(r) for j in new]
Products(n, b, r, new) ==
    Computed([k \in 1..(r * RangeLen(new)) |->
                Flatten(MatMul(Unflatten(n, b.e[(k - 1) \div RangeLen(new)]),
                               Unflatten(n, b.e[new.lo + ((k - 1) % RangeLen(new))])))])
\* [mat.list() for mat in Mats]
FlatList(Mats) == Computed([k \in 1..Len(Mats) |-> Flatten(Mats[k])])

\* lines 312-315 and 320-324: the locals once REF has given out, new
\* beginning at lo
AlgLocals(Mats, n, out, lo) ==
    [stage |-> "loop", Mats |-> Mats, n |-> n, p |-> out.p, r |-> Len(out.p),
     b |-> FirstRows(out.R, Len(out.p)), new |-> Range(lo, Len(out.p))]
\* lines 309-315
AlgBegin(Mats) ==
    AlgLocals(Mats, Mats[1].nrows,
              REF(MatrixOfRows(FlatList(Mats), Mats[1].nrows * Mats[1].nrows),
                  FALSE, TRUE, <<>>),
              0)

\* line 317
AlgLoopGuard(a) == RangeLen(a.new) > 0 /\ a.r < a.n * a.n

\* lines 318-324: one round of the loop
AlgStep(a) ==
    AlgLocals(a.Mats, a.n,
              REF(Stack(a.b, MatrixOfRows(Products(a.n, a.b, a.r, a.new), a.n * a.n)),
                  FALSE, TRUE, a.p),
              a.r)

\* line 326
AlgEnd(a) == [stage |-> "returned", Mats |-> a.Mats, n |-> a.n, b |-> RowList(a.b)]

\* the whole call: generated_algebra(Mats), the list returned
RECURSIVE AlgRun(_)
AlgRun(a) == IF AlgLoopGuard(a) THEN AlgRun(AlgStep(a)) ELSE AlgEnd(a)
generated_algebra(Mats) == AlgRun(AlgBegin(Mats)).b

AlgStart ==
    /\ alg.stage = "input"
    /\ alg' = AlgBegin(alg.Mats)
    /\ UNCHANGED <<ref, orb, split, search>>

AlgRound ==
    /\ alg.stage = "loop"
    /\ AlgLoopGuard(alg)
    /\ alg' = AlgStep(alg)
    /\ UNCHANGED <<ref, orb, split, search>>

AlgReturn ==
    /\ alg.stage = "loop"
    /\ ~AlgLoopGuard(alg)
    /\ alg' = AlgEnd(alg)
    /\ UNCHANGED <<ref, orb, split, search>>

(* ------------------------ inputs of generated_algebra ------------------- *)

\* the 2x2 matrices of 0 and 1, and the 1x1 matrices (0), (1), (2)
AlgMatPool2 == {FromInts(<<r0, r1>>) : r0 \in Bits \X Bits, r1 \in Bits \X Bits}
AlgMatPool1 == {FromInts(<<<<a>>>>) : a \in 0..2}
AlgFamilies ==
    (SeqsUpTo(AlgMatPool2, MaxMats) \cup SeqsUpTo(AlgMatPool1, MaxMats)) \ {<<>>}

AlgInit ==
    /\ alg \in {[stage |-> "input", Mats |-> Mats] : Mats \in AlgFamilies}
    /\ ref = Idle /\ orb = Idle /\ split = Idle /\ search = Idle
AlgNext == AlgStart \/ AlgRound \/ AlgReturn
SpecAlgebra == AlgInit /\ [][AlgNext]_vars

(* ------------------------ claims on generated_algebra ------------------- *)

\* the products of exactly k matrices of Mats (the identity for k = 0)
RECURSIVE WordsOfLength(_, _, _)
WordsOfLength(Mats, n, k) ==
    IF k = 0 THEN <<identity_matrix(n)>>
    ELSE LET prev == WordsOfLength(Mats, n, k - 1)
         IN  Computed([i \in 1..(Len(Mats) * Len(prev)) |->
                         MatMul(Mats[((i - 1) \div Len(prev)) + 1],
                                prev[((i - 1) % Len(prev)) + 1])])
RECURSIVE WordsUpTo(_, _, _)
WordsUpTo(Mats, n, k) ==
    IF k = 0 THEN WordsOfLength(Mats, n, 0)
    ELSE WordsUpTo(Mats, n, k - 1) \o WordsOfLength(Mats, n, k)
\* the unital algebra generated by Mats is spanned by the identity and the
\* products of at most n^2 - 1 matrices of Mats
UnitalAlgebra(Mats, n) == MidList(FlatList(WordsUpTo(Mats, n, n * n - 1)))

\* C8: for an exact family, generated_algebra(Mats) returns a basis of the
\* unital algebra generated by Mats; its length is n^2 if and only if that
\* algebra is the full matrix algebra.
C8_UnitalAlgebraBasis ==
    alg.stage = "returned" =>
        LET V == MidList(alg.b)
            A == UnitalAlgebra(alg.Mats, alg.n)
        IN  /\ Rank(V) = Len(V)
            /\ Rank(A \o V) = Rank(A)
            /\ Len(V) = Rank(A)
            /\ (Len(V) = alg.n * alg.n) <=> (Rank(A) = alg.n * alg.n)

(* ------------------- matrices: what splitting.py uses ------------------- *)

MatSub(A, B) == Matrix(A.nrows, A.ncols, LAMBDA i, j : BSub(A.e[i][j], B.e[i][j]))
Transpose(A) == Matrix(A.ncols, A.nrows, LAMBDA i, j : A.e[j][i])
ZeroMatrix(m, n) == Matrix(m, n, LAMBDA i, j : BZero)
\* mat.submatrix(s, s, nj, nj), M.matrix_from_rows_and_columns(ind, ind)
SubMatrix(A, s, nj) == Matrix(nj, nj, LAMBDA i, j : A.e[s + i][s + j])
\* A.block_sum(B)
BlockSum(A, B) ==
    Matrix(A.nrows + B.nrows, A.ncols + B.ncols,
           LAMBDA i, j : IF i < A.nrows /\ j < A.ncols THEN A.e[i][j]
                         ELSE IF i >= A.nrows /\ j >= A.ncols
                         THEN B.e[i - A.nrows][j - A.ncols]
                         ELSE BZero)
\* A without its row i and its column j
MinorAt(A, i, j) ==
    Matrix(A.nrows - 1, A.ncols - 1,
           LAMBDA a, b : A.e[IF a < i THEN a ELSE a + 1][IF b < j THEN b ELSE b + 1])
\* ~T, by cofactors, d being the determinant
InverseWith(A, d) ==
    Matrix(A.nrows, A.ncols,
           LAMBDA i, j :
             BDiv(IF A.nrows = 1 THEN BOne
                  ELSE IF (i + j) % 2 = 0 THEN Det(MinorAt(A, j, i))
                  ELSE BSub(BZero, Det(MinorAt(A, j, i))),
                  d))
Inverse(A) == InverseWith(A, Det(A))
RECURSIVE MatPow(_, _)
MatPow(A, k) == IF k = 0 THEN identity_matrix(A.nrows) ELSE MatMul(MatPow(A, k - 1), A)
\* sum(c[k]*Mats[k]), which starts from the integer 0
RECURSIVE Combination(_, _, _)
Combination(c, Mats, k) ==
    IF k = 1 THEN ScalMat(BInt(c[1]), Mats[1])
    ELSE MatAdd(Combination(c, Mats, k - 1), ScalMat(BInt(c[k]), Mats[k]))
\* every entry of A is given the radius rho: what a computation at a finite
\* precision returns for the exact result A
Enclose(A, rho) ==
    Matrix(A.nrows, A.ncols, LAMBDA i, j : Ball(A.e[i][j].mid, QAdd(A.e[i][j].rad, rho)))
IsZeroMatrix(A) == \A i \in 0..(A.nrows - 1) : \A j \in 0..(A.ncols - 1) : A.e[i][j] = BZero

(* ------------- eigenvalues and generalized eigenspaces ------------------ *)
(* The module linear_algebra is not part of the sources: eigenvalues and    *)
(* gen_eigenspaces are taken from their description, on matrices of         *)
(* integers whose eigenvalues are rational (hence integers not larger than  *)
(* the largest sum of the absolute values of a row).                        *)

IntAbs(q) == Abs(q[1]) \div q[2]
RECURSIVE RowAbsSum(_, _, _)
RowAbsSum(A, i, j) == IF j < 0 THEN 0 ELSE RowAbsSum(A, i, j - 1) + IntAbs(A.e[i][j].mid)
SpectralBound(A) ==
    LET sums == {RowAbsSum(A, i, A.ncols - 1) : i \in 0..(A.nrows - 1)}
    IN  CHOOSE m \in sums : \A m2 \in sums : m2 <= m
\* (B - lambda)^n, whose kernel is the generalized eigenspace of lambda
Nilpotent(B, lambda) == MatPow(MatSub(B, ScalMat(BInt(lambda), identity_matrix(B.nrows))), B.nrows)
\* the vectors a basis is looked for in
BasisEntries == -2..2
RECURSIVE IntVectors(_)
IntVectors(n) ==
    IF n = 0 THEN {<<>>} ELSE {Append(v, a) : v \in IntVectors(n - 1), a \in BasisEntries}
ToVector(q) == Vector(Len(q), LAMBDA k : BInt(q[k + 1]))
KernelVectors(N) ==
    {v \in {ToVector(q) : q \in IntVectors(N.ncols)} :
        \A i \in 0..(N.nrows - 1) : MatVec(N, v)[i] = BZero}
RECURSIVE PickBasis(_, _, _)
PickBasis(K, chosen, m) ==
    IF Len(chosen) = m THEN chosen
    ELSE LET more == {v \in K : Rank(MidList(Append(chosen, v))) = Len(chosen) + 1}
         IN  IF more = {} THEN chosen
             ELSE PickBasis(K, Append(chosen, CHOOSE v \in more : TRUE), m)
\* the standard basis when the generalized eigenspace is the whole space; N
\* is (B - lambda)^n and m the multiplicity
EigenBasis(N, m) ==
    IF IsZeroMatrix(N) THEN RowList(identity_matrix(N.nrows))
    ELSE PickBasis(KernelVectors(N), <<>>, m)
EigenGroup(lambda, N, m) ==
    IF m = 0 THEN <<>>
    ELSE <<[eigenvalue |-> lambda, multiplicity |-> m, basis |-> EigenBasis(N, m)]>>
EigenGroupOf(lambda, N) == EigenGroup(lambda, N, N.nrows - Rank(MidRows(N)))
\* gen_eigenspaces(B): one record for each eigenvalue, by increasing eigenvalue
RECURSIVE GenEigenspacesFrom(_, _, _)
GenEigenspacesFrom(B, lambda, top) ==
    IF lambda > top THEN <<>>
    ELSE EigenGroupOf(lambda, Nilpotent(B, lambda)) \o GenEigenspacesFrom(B, lambda + 1, top)
GenEigenspacesWithin(B, bound) == GenEigenspacesFrom(B, -bound, bound)
gen_eigenspaces(B) == GenEigenspacesWithin(B, SpectralBound(B))
RECURSIVE SumOver(_, _, _)
SumOver(seq, F(_), k) == IF k = 0 THEN 0 ELSE SumOver(seq, F, k - 1) + F(seq[k])
\* dec is the decomposition of a matrix the model decomposes: its
\* eigenvalues are rational and its generalized eigenspaces have bases with
\* entries in BasisEntries
Decomposed(dec, n) ==
    /\ SumOver(dec, LAMBDA s : s.multiplicity, Len(dec)) = n
    /\ \A k \in 1..Len(dec) : Len(dec[k].basis) = dec[k].multiplicity
Decomposable(B) == Decomposed(gen_eigenspaces(B), B.nrows)
\* eigenvalues(mat), as intersect_eigenvectors uses it: the list has one
\* element exactly when (k mat - tr(mat))^k = 0 for the k x k matrix mat, and
\* the eigenvalue is then tr(mat)/k
Trace(B) == BSum([i \in 0..(B.nrows - 1) |-> B.e[i][i]], B.nrows)
SingleEigenvalue(B) ==
    IsZeroMatrix(MatPow(MatSub(ScalMat(BInt(B.nrows), B),
                               ScalMat(Trace(B), identity_matrix(B.nrows))), B.nrows))
TheEigenvalue(B) == BDiv(Trace(B), BInt(B.nrows))

(* -------------------------------- Splitting ----------------------------- *)

RECURSIVE Concat(_, _)
\* the lists seqs[1], ..., seqs[k] one after the other
Concat(seqs, k) == IF k = 0 THEN <<>> ELSE Concat(seqs, k - 1) \o seqs[k]
RECURSIVE Offset(_, _)
\* the index at which the block j (counted from 1) begins
Offset(partition, j) == IF j = 1 THEN 0 ELSE Offset(partition, j - 1) + partition[j - 1]

\* lines 23-32
Splitting(Mats) ==
    LET n == Mats[1].nrows
    IN  [stage |-> "built", n |-> n, matrices |-> Mats, partition |-> <<n>>,
         basis |-> identity_matrix(n), projections |-> <<identity_matrix(n)>>]

\* T D ~T
Conjugate(T, D) == MatMul(MatMul(T, D), Inverse(T))
\* the index at which the group k of dec begins
GroupOffset(dec, k) == SumOver(SubSeq(dec, 1, k - 1), LAMBDA s : s.multiplicity, k - 1)
ProjectionOf(dec, n, lambda) ==
    Conjugate(Transpose(MatrixOfRows(Concat([k \in 1..Len(dec) |-> dec[k].basis], Len(dec)), n)),
              Matrix(n, n, LAMBDA i, j :
                 IF i = j /\ \E k \in 1..Len(dec) :
                                /\ dec[k].eigenvalue = lambda
                                /\ GroupOffset(dec, k) <= i
                                /\ i < GroupOffset(dec, k) + dec[k].multiplicity
                 THEN BOne ELSE BZero))
\* s['projection'](mat): the projection on the generalized eigenspace of
\* lambda along the others, a polynomial in mat
ProjectionAt(mat, lambda) == ProjectionOf(gen_eigenspaces(mat), mat.nrows, lambda)

\* line 50, for the bases of one block
BlockBasis(bloc, nj) ==
    Transpose(MatrixOfRows(Concat([i \in 1..Len(bloc) |-> bloc[i].basis], Len(bloc)), nj))
RECURSIVE BlockSums(_, _, _)
\* lines 46-50: T after the first k blocks
BlockSums(new_dec, partition, k) ==
    IF k = 0 THEN ZeroMatrix(0, 0)
    ELSE BlockSum(BlockSums(new_dec, partition, k - 1), BlockBasis(new_dec[k], partition[k]))

\* lines 51-54; rho is the radius of the entries of the projections computed
Rebased(sp, partition, projections, T, invT, rho) ==
    [stage |-> "built", n |-> sp.n,
     partition |-> partition,
     basis |-> MatMul(T, sp.basis),
     matrices |-> Computed([k \in 1..Len(sp.matrices) |->
                              MatMul(MatMul(invT, sp.matrices[k]), T)]),
     projections |-> Computed([k \in 1..Len(projections) |->
                                 Enclose(MatMul(MatMul(invT, projections[k]), T), rho)])]
\* lines 46-54
RebasedBy(sp, partition, projections, T, rho) ==
    Rebased(sp, partition, projections, T, Inverse(T), rho)
\* lines 43-54, new_dec being the list of lines 38-41
Refined(sp, mat, new_dec, rho) ==
    RebasedBy(sp,
              Concat([j \in 1..Len(sp.partition) |->
                        [k \in 1..Len(new_dec[j]) |-> new_dec[j][k].multiplicity]],
                     Len(sp.partition)),
              Concat([j \in 1..Len(sp.partition) |->
                        [k \in 1..Len(new_dec[j]) |->
                           MatMul(MatMul(sp.projections[j],
                                         ProjectionAt(mat, new_dec[j][k].eigenvalue)),
                                  sp.projections[j])]],
                     Len(sp.partition)),
              BlockSums(new_dec, sp.partition, Len(sp.partition)),
              rho)
\* lines 36-56
refine(sp, mat, rho) ==
    Refined(sp, mat,
            Computed([j \in 1..Len(sp.partition) |->
                        gen_eigenspaces(SubMatrix(mat, Offset(sp.partition, j), sp.partition[j]))]),
            rho)

RECURSIVE QSumTo(_, _)
QSumTo(f, k) == IF k < 0 THEN QZero ELSE QAdd(QSumTo(f, k - 1), f[k])
RECURSIVE QMaxTo(_, _)
QMaxTo(f, k) == IF k = 0 THEN f[0] ELSE QMax(QMaxTo(f, k - 1), f[k])
\* line 67
ResidualError(p, n) ==
    QMaxTo([i \in 0..(n - 1) |-> QSumTo([j \in 0..(n - 1) |-> above_abs(p.e[i][j])], n - 1)],
           n - 1)
\* line 68: the errors check_lines goes on with
ErrorAccepted(err) == ~QLt(QOne, err)
\* line 73: the orbits check_lines returns
OrbitKept(V, n) == Len(V) < n

\* line 71
LineSeed(n, s, err) ==
    Vector(n, LAMBDA k : BAdd(identity_matrix(n).e[s][k], add_error(BZero, err)))
\* lines 65-66: the projection of the block j, changed in place
Residual(sp, j, s) == [sp EXCEPT !.projections[j].e[s][s] = BSub(@, BOne)]

RECURSIVE CheckLinesFrom(_, _, _)
RECURSIVE LinesOrbit(_, _, _, _)
RECURSIVE LinesBlock(_, _, _, _)
\* lines 73-77, o being what orbit has given at line 72
LinesOrbit(sp, j, s, o) ==
    IF o.stage = "raised" THEN [kind |-> "raise", exc |-> o.exc, split |-> sp]
    ELSE IF OrbitKept(o.b, sp.n)
    THEN [kind |-> "found", split |-> sp,
          V |-> Computed([k \in 1..Len(o.b) |-> MatVec(sp.basis, o.b[k])])]
    ELSE CheckLinesFrom(sp, j + 1, s + 1)
\* lines 67-77, sp being the Splitting after lines 65-66
LinesBlock(sp, j, s, err) ==
    IF ~ErrorAccepted(err) THEN [kind |-> "raise", exc |-> "PrecisionError", split |-> sp]
    ELSE LinesOrbit(sp, j, s, orbit(sp.matrices, LineSeed(sp.n, s, err), FALSE))
\* lines 63-79, from the block j (counted from 1) that begins at s: what
\* check_lines does (raise, return (True, V), return (False, None)) and the
\* Splitting it leaves
CheckLinesFrom(sp, j, s) ==
    IF j > Len(sp.partition) THEN [kind |-> "nothing", split |-> sp]
    ELSE IF sp.partition[j] # 1 THEN CheckLinesFrom(sp, j + 1, s + sp.partition[j])
    ELSE LinesBlock(Residual(sp, j, s), j, s,
                    ResidualError(Residual(sp, j, s).projections[j], sp.n))
check_lines(sp) == CheckLinesFrom(sp, 1, 0)

\* lines 153-156, the rows of mat - eigvals[0] being put under those whose
\* kernel is K; several: PrecisionError is raised
Intersect(prev, mat) ==
    IF prev.several \/ ~SingleEigenvalue(mat) THEN [several |-> TRUE, rows |-> <<>>]
    ELSE [several |-> FALSE,
          rows |-> prev.rows \o
                   MidRows(MatSub(mat, ScalMat(TheEigenvalue(mat), identity_matrix(mat.nrows))))]
RECURSIVE IntersectAll(_, _, _, _)
\* lines 110-113: K after the k first matrices
IntersectAll(Mats, s, nj, k) ==
    IF k = 0 THEN [several |-> FALSE, rows |-> <<>>]
    ELSE Intersect(IntersectAll(Mats, s, nj, k - 1), SubMatrix(Mats[k], s, nj))
\* K.dimension()
KernelDimension(rows, nj) == nj - Rank(rows)

RECURSIVE CheckNolinesFrom(_, _, _)
RECURSIVE NolinesBlock(_, _, _, _)
\* lines 115-129 for the block j, K being what lines 110-113 have left.
\* orbit is declared orbit(Mats, vec, *, transition=False): the call of line
\* 117, with pivots=True, raises TypeError before anything of orbit is run.
NolinesBlock(sp, j, s, K) ==
    IF K.several THEN [kind |-> "raise", exc |-> "PrecisionError"]
    ELSE IF KernelDimension(K.rows, sp.partition[j]) > 0
    THEN [kind |-> "raise", exc |-> "TypeError"]
    ELSE CheckNolinesFrom(sp, j + 1, s + sp.partition[j])
\* lines 105-133, from the block j (counted from 1) that begins at s
CheckNolinesFrom(sp, j, s) ==
    IF j > Len(sp.partition) THEN [kind |-> "nothing"]
    ELSE IF sp.partition[j] <= 1 THEN CheckNolinesFrom(sp, j + 1, s + sp.partition[j])
    ELSE NolinesBlock(sp, j, s,
                      IntersectAll(sp.matrices, s, sp.partition[j], Len(sp.matrices)))
\* lines 101-133; lost: COF_version finds that too much precision is lost
check_nolines(sp, lost) ==
    IF lost THEN [kind |-> "raise", exc |-> "PrecisionError"]
    ELSE CheckNolinesFrom(sp, 1, 0)

(* ---------------------------- invariant_subspace ------------------------ *)
(* search is the call: where it stands, its argument Mats, the calls it has *)
(* made in order (log) and its outcome; split is its Splitting.             *)

Event(call, result) == [call |-> call, result |-> result]

\* the coefficients of the random combination of line 171 are integers of
\* 0..MaxCoeff; the radii of the projections computed are k/RadDen
MaxCoeff == 1
RECURSIVE Coefficients(_)
Coefficients(k) ==
    IF k = 0 THEN {<<>>} ELSE {Append(c, a) : c \in Coefficients(k - 1), a \in 0..MaxCoeff}
Radii == {Q(k, RadDen) : k \in 0..MaxRad}

\* line 181
LinesExhaustedEarly(partition, n) == Len(partition) >= 1
LinesExhausted(partition, n) == Len(partition) = n
\* line 191
AlgebraIsFull(A, n) == Len(A) = n * n

\* lines 169-172, mat being the random combination of line 171
Entered(Mats, mat, rho) ==
    /\ Decomposable(mat)
    /\ split' = refine(Splitting(Mats), mat, rho)
    /\ search' = [stage |-> "loop", Mats |-> Mats, n |-> Mats[1].nrows, log |-> <<>>]

\* lines 167-172
InvEnter ==
    /\ search.stage = "called"
    /\ IF search.Mats = <<>>
       THEN /\ search' = [stage |-> "raised", exc |-> "TypeError", Mats |-> search.Mats,
                          log |-> <<>>]
            /\ split' = split
       ELSE \E c \in Coefficients(Len(search.Mats)) : \E rho \in Radii :
              Entered(search.Mats, Combination(c, search.Mats, Len(search.Mats)), rho)
    /\ UNCHANGED <<ref, orb, alg>>

\* lines 177-181, res being what check_lines has done
AfterCheckLines(s, partition, res) ==
    IF res.kind = "raise"
    THEN [Mats |-> s.Mats, n |-> s.n, stage |-> "raised", exc |-> res.exc,
          log |-> Append(s.log, Event("check_lines", "raise"))]
    ELSE IF res.kind = "found"
    THEN [Mats |-> s.Mats, n |-> s.n, stage |-> "returned", ret |-> "basis", V |-> res.V,
          log |-> Append(s.log, Event("check_lines", "found"))]
    ELSE IF LinesExhausted(partition, s.n)
    THEN [Mats |-> s.Mats, n |-> s.n, stage |-> "returned", ret |-> "None", V |-> <<>>,
          log |-> Append(s.log, Event("check_lines", "nothing"))]
    ELSE [Mats |-> s.Mats, n |-> s.n, stage |-> "nolines",
          log |-> Append(s.log, Event("check_lines", "nothing"))]
LinesChecked(res) ==
    /\ split' = res.split
    /\ search' = AfterCheckLines(search, res.split.partition, res)

\* lines 175-181
InvCheckLines ==
    /\ search.stage = "loop"
    /\ LinesChecked(check_lines(split))
    /\ UNCHANGED <<ref, orb, alg>>

\* lines 184-187, res being what check_nolines has done: it has raised, or
\* returned (False, None), after which hope is False and the loop is left
AfterCheckNolines(s, res) ==
    IF res.kind = "raise"
    THEN [Mats |-> s.Mats, n |-> s.n, stage |-> "raised", exc |-> res.exc,
          log |-> Append(s.log, Event("check_nolines", "raise"))]
    ELSE [Mats |-> s.Mats, n |-> s.n, stage |-> "algebra",
          log |-> Append(s.log, Event("check_nolines", "nothing"))]

\* lines 184-187
InvCheckNolines ==
    /\ search.stage = "nolines"
    /\ \E lost \in BOOLEAN : search' = AfterCheckNolines(search, check_nolines(split, lost))
    /\ UNCHANGED <<ref, orb, alg, split>>

\* lines 191-195, A being the list generated_algebra has returned.  The
\* search is restarted on A, whose elements are vectors: the restarted call
\* raises TypeError at line 167 if A is empty, and otherwise AttributeError
\* at line 169, a vector having no nrows.
AfterAlgebra(s, A) ==
    IF AlgebraIsFull(A, s.n)
    THEN [Mats |-> s.Mats, n |-> s.n, stage |-> "returned", ret |-> "None", V |-> <<>>,
          log |-> Append(s.log, Event("generated_algebra", "full"))]
    ELSE [Mats |-> s.Mats, n |-> s.n, stage |-> "raised",
          exc |-> IF A = <<>> THEN "TypeError" ELSE "AttributeError",
          log |-> Append(s.log, Event("generated_algebra", "restart"))]

\* lines 189-195
InvAlgebra ==
    /\ search.stage = "algebra"
    /\ search' = AfterAlgebra(search, generated_algebra(search.Mats))
    /\ UNCHANGED <<ref, orb, alg, split>>

(* ------------------------ inputs of invariant_subspace ------------------ *)

SearchPool1 == {FromInts(<<<<a>>>>) : a \in {0, 2}}
SearchPool2 ==
    {FromInts(m) : m \in {<<<<1, 0>>, <<0, 2>>>>, <<<<1, 1>>, <<0, 1>>>>,
                          <<<<0, 1>>, <<0, 0>>>>, <<<<0, 0>>, <<1, 0>>>>}}
SearchFamilies3 ==
    {<<FromInts(<<<<0, 1, 0>>, <<0, 0, 1>>, <<0, 0, 0>>>>),
       FromInts(<<<<0, 0, 0>>, <<1, 0, 0>>, <<0, 0, 0>>>>)>>,
     <<FromInts(<<<<1, 0, 0>>, <<0, 2, 0>>, <<0, 0, 2>>>>)>>,
     <<FromInts(<<<<1, 0, 0>>, <<0, 2, 1>>, <<0, 0, 2>>>>),
       FromInts(<<<<0, 0, 0>>, <<0, 0, 0>>, <<0, 1, 0>>>>)>>}
\* the empty list, and families of 1x1, 2x2 and 3x3 matrices
SearchFamilies ==
    SeqsUpTo(SearchPool1, MaxMats) \cup SeqsUpTo(SearchPool2, MaxMats) \cup SearchFamilies3

InvInit ==
    /\ search \in {[stage |-> "called", Mats |-> Mats] : Mats \in SearchFamilies}
    /\ split = Idle
    /\ ref = Idle /\ orb = Idle /\ alg = Idle
InvNext == InvEnter \/ InvCheckLines \/ InvCheckNolines \/ InvAlgebra
SpecSearch == InvInit /\ [][InvNext]_vars

(* ---------------------- claims on invariant_subspace -------------------- *)

\* C1: a basis returned by invariant_subspace for n x n matrices has d
\* vectors with 1 <= d <= n-1.
C1_ProperSubspace ==
    (search.stage = "returned" /\ search.ret = "basis") =>
        /\ 1 <= Len(search.V)
        /\ Len(search.V) <= search.n - 1

\* C2: None is returned only (a) right after check_lines found nothing while
\* the partition has n blocks, or (b) after check_lines found nothing,
\* check_nolines returned nothing and generated_algebra(Mats) returned n^2
\* elements; check_nolines is called only after check_lines failed, and
\* generated_algebra only after check_nolines returned nothing.
C2_NoneOnlyWhenExhausted ==
    search.stage \in {"loop", "nolines", "algebra", "returned", "raised"} =>
        LET log == search.log
            k == Len(log)
        IN  /\ \A i \in 1..k :
                  /\ log[i].call = "check_nolines" =>
                        i > 1 /\ log[i - 1] = Event("check_lines", "nothing")
                  /\ log[i].call = "generated_algebra" =>
                        i > 1 /\ log[i - 1] = Event("check_nolines", "nothing")
            /\ (search.stage = "returned" /\ search.ret = "None") =>
                  \/ /\ k >= 1 /\ log[k] = Event("check_lines", "nothing")
                     /\ Len(split.partition) = search.n
                  \/ /\ k >= 3 /\ log[k] = Event("generated_algebra", "full")
                     /\ log[k - 1] = Event("check_nolines", "nothing")
                     /\ log[k - 2] = Event("check_lines", "nothing")
                     /\ Len(generated_algebra(search.Mats)) = search.n * search.n
\* None returned because the matrices generate the whole algebra
C2_Witness ==
    /\ search.stage = "returned" /\ search.ret = "None"
    /\ Len(search.log) = 3
    /\ Len(split.partition) < search.n
\* None returned right after check_lines, the partition having n > 1 blocks
C2_WitnessLines ==
    /\ search.stage = "returned" /\ search.ret = "None"
    /\ Len(search.log) = 1
    /\ search.n > 1

\* C3: a call of invariant_subspace returns a basis, returns None, raises
\* PrecisionError or raises TypeError; TypeError is raised exactly when Mats
\* is the empty list, and then no Splitting has been built.
C3_FourOutcomes ==
    /\ search.stage = "raised" =>
          /\ search.exc \in {"PrecisionError", "TypeError"}
          /\ search.exc = "TypeError" => (search.Mats = <<>> /\ split = Idle)
    /\ (search.stage \in {"returned", "raised"} /\ search.Mats = <<>>) =>
          (search.stage = "raised" /\ search.exc = "TypeError")
    /\ search.stage = "returned" => search.ret \in {"basis", "None"}

(* ------------------------ the calls on a Splitting ---------------------- *)
(* A Splitting is built on Mats and its methods refine and check_lines are  *)
(* called in any order.  search is the caller: the matrices the Splitting   *)
(* was built on, the number of calls made, the last call and the Splitting  *)
(* before it.                                                               *)

\* at most MaxCalls calls are made on a Splitting
MaxCalls == 2

\* the block (counted from 1) of the index i
BlockOf(partition, i) ==
    CHOOSE j \in 1..Len(partition) :
        Offset(partition, j) <= i /\ i < Offset(partition, j) + partition[j]
\* mat maps every block of the partition into itself: the matrices whose
\* restrictions to the blocks (line 40) are restrictions of mat
BlockDiagonal(mat, partition) ==
    \A i \in 0..(mat.nrows - 1) : \A j \in 0..(mat.ncols - 1) :
        BlockOf(partition, i) # BlockOf(partition, j) => mat.e[i][j] = BZero

Called(s, call, before) ==
    [stage |-> "calls", Mats |-> s.Mats, calls |-> s.calls + 1,
     refines |-> IF call = "refine" THEN s.refines + 1 ELSE s.refines,
     last |-> call, before |-> before]

\* split.refine(mat), mat being a combination of the matrices of the
\* Splitting, in its basis
RefineWith(mat, rho) ==
    /\ BlockDiagonal(mat, split.partition)
    /\ Decomposable(mat)
    /\ split' = refine(split, mat, rho)
    /\ search' = Called(search, "refine", split)
SplitRefine ==
    /\ search.stage = "calls"
    /\ search.calls < MaxCalls
    /\ \E c \in Coefficients(Len(split.matrices)) : \E rho \in Radii :
          RefineWith(Combination(c, split.matrices, Len(split.matrices)), rho)
    /\ UNCHANGED <<ref, orb, alg>>

\* split.check_lines(), whatever it returns or raises
SplitCheckLines ==
    /\ search.stage = "calls"
    /\ search.calls < MaxCalls
    /\ split' = check_lines(split).split
    /\ search' = Called(search, "check_lines", split)
    /\ UNCHANGED <<ref, orb, alg>>

\* A and B commute: B maps the generalized eigenspaces of A into themselves
SplitFamilies3 ==
    {<<FromInts(<<<<1, 1, 0>>, <<0, 2, 0>>, <<0, 0, 2>>>>),
       FromInts(<<<<0, 0, 1>>, <<0, 0, 1>>, <<0, 1, 0>>>>)>>,
     <<FromInts(<<<<1, 0, 0>>, <<0, 2, 0>>, <<0, 0, 2>>>>),
       FromInts(<<<<0, 0, 0>>, <<0, 1, 1>>, <<0, 0, 2>>>>)>>}
SplitFamilies == (SeqsUpTo(SearchPool2, MaxMats) \ {<<>>}) \cup SplitFamilies3

SplitInit ==
    /\ search \in {[stage |-> "calls", Mats |-> Mats, calls |-> 0, refines |-> 0,
                    last |-> "init", before |-> Idle] : Mats \in SplitFamilies}
    /\ split = Splitting(search.Mats)
    /\ ref = Idle /\ orb = Idle /\ alg = Idle
SplitNext == SplitRefine \/ SplitCheckLines
SpecSplitting == SplitInit /\ [][SplitNext]_vars

(* --------------------------- claims on Splitting ------------------------ *)

\* basis * matrices[k] * basis^-1 == original_matrices[k] for every k
Conjugation(sp, Mats) ==
    \A k \in 1..Len(Mats) : Conjugate(sp.basis, sp.matrices[k]) = Mats[k]

\* C11: after any sequence of refine calls, basis * matrices[k] * basis^-1
\* is the matrix k the Splitting was built on, for every k.
C11_ConjugationKept ==
    search.stage = "calls" => Conjugation(split, search.Mats)
\* the same after at most one refine
C11_AfterOneRefine ==
    (search.stage = "calls" /\ search.refines <= 1) => Conjugation(split, search.Mats)
\* a refine has been made by each of its calls
C11_TwoRefines ==
    search.stage = "calls" /\ search.refines = 2 /\ search.calls = 2

RECURSIVE MatSum(_, _, _)
\* the sum of the first k matrices of the list, n x n
MatSum(ms, n, k) == IF k = 0 THEN ZeroMatrix(n, n) ELSE MatAdd(MatSum(ms, n, k - 1), ms[k])
\* the enclosure A holds the identity
HoldsIdentity(A) ==
    \A i \in 0..(A.nrows - 1) : \A j \in 0..(A.ncols - 1) :
        BContains(A.e[i][j], IF i = j THEN QOne ELSE QZero)
\* one projection for each block, and their sum is the identity
ProjectionsComplete(sp) ==
    /\ Len(sp.projections) = Len(sp.partition)
    /\ HoldsIdentity(MatSum(sp.projections, sp.n, Len(sp.projections)))

\* C12: in every state of a Splitting reached by calls of refine and
\* check_lines there is one projection for each block and the projections
\* sum to the identity, and a call of check_lines leaves the partition, the
\* basis, the matrices and the projections as they were.
C12_CheckLinesReadsOnly ==
    search.stage = "calls" =>
        /\ ProjectionsComplete(split)
        /\ search.last = "check_lines" => split = search.before
\* the same as long as refine alone has been called
C12_AfterRefines ==
    (search.stage = "calls" /\ search.refines = search.calls) => ProjectionsComplete(split)
\* what check_lines changes is an entry of a projection, nothing else
C12_ProjectionsOnly ==
    (search.stage = "calls" /\ search.last = "check_lines") =>
        [split EXCEPT !.projections = search.before.projections] = search.before

(* -------------------- termination of invariant_subspace ----------------- *)

\* the number of times the search has been restarted on generated_algebra
Restarts(log) ==
    Cardinality({i \in 1..Len(log) : log[i] = Event("generated_algebra", "restart")})

\* C13: a call of invariant_subspace on a non-empty family makes finitely
\* many refinements and restarts, and ends by returning a basis, returning
\* None or raising PrecisionError.
C13_Terminates ==
    (search.stage # "called" /\ search.Mats # <<>>) =>
        /\ Len(search.log) <= 3
        /\ Restarts(search.log) <= 1
        /\ search.stage = "raised" => search.exc = "PrecisionError"
\* the steps a call has still to make, at most
StepsLeft ==
    IF search.stage = "called" THEN 4
    ELSE IF search.stage = "loop" THEN 3
    ELSE IF search.stage = "nolines" THEN 2
    ELSE IF search.stage = "algebra" THEN 1
    ELSE 0
\* a call that has not ended can make a step: the random combination of
\* line 171 is one the model decomposes, and the other steps ask nothing
C13_CanStep ==
    /\ search.stage \in {"called", "loop", "nolines", "algebra", "returned", "raised"}
    /\ (search.stage = "called" /\ search.Mats # <<>>) =>
          \E c \in Coefficients(Len(search.Mats)) :
              Decomposable(Combination(c, search.Mats, Len(search.Mats)))
\* every step brings the call nearer to its end, in whatever way it ends
C13_Decreases == [][StepsLeft' < StepsLeft]_vars
====
